---- MODULE Spec2Model ----
(***************************************************************************)
(* Model of scripts/generate_ratings.py (GratefulDeadRatingsGenerator):    *)
(* the recording rating calculator, the show aggregator and the dataset    *)
(* pipeline.                                                               *)
(*                                                                         *)
(* Python floats are modelled as exact rationals <<num, den>> in lowest    *)
(* terms with den > 0; rounding of IEEE doubles is not modelled.           *)
(* Python strings that the code inspects are sequences of one-character    *)
(* strings; opaque strings (identifiers) are TLA+ strings.                 *)
(***************************************************************************)
EXTENDS Integers, Sequences, FiniteSets, TLC

VARIABLES
    \* --- compute_recording_rating called on its own (SpecScore) ---
    reviews,            \* the List[ReviewData] argument
    source_type,        \* the source_type argument
    score,              \* the value returned, NotCalled before the call
    prev_reviews,       \* argument of the previous call
    prev_score,         \* value returned by the previous call
    pcScore,
    \* --- compute_show_rating called on its own (SpecShow) ---
    recording_ratings,      \* the List[RecordingRating] argument
    sorted_recordings,      \* the local sorted_recordings of the last call
    show_rating,            \* the value returned, NotCalled before the call
    prev_recording_ratings, \* argument of the previous call
    prev_show_rating,       \* value returned by the previous call
    pcShow,
    \* --- generate_ratings_data (Spec) ---
    max_recordings,         \* the argument of generate_ratings_data
    recording_ids,          \* identifiers to process
    idx,                    \* position of the first loop in recording_ids
    shows_data,             \* defaultdict(list), as <<[show_key, recordings]>>
    recording_ratings_data, \* dict identifier -> entry
    processed_count,
    sidx,                   \* position of the second loop in shows_data
    show_ratings_data,      \* dict show_key -> entry, as <<[show_key, ...]>>
    top_shows,
    ratings_data,           \* the dataset returned, NotCalled before
    below_threshold,        \* the identifiers whose iteration ended at the
                            \* continue of line 362
    pc,
    \* --- normalize_date called on its own (SpecDate) ---
    date_arg,               \* the argument date_str
    normalized,             \* the value returned
    renormalized,           \* the value returned for the value returned
    pcDate,
    \* --- extract_source_type called on its own (SpecSource) ---
    title_arg,
    description_arg,
    classified,             \* the value returned
    pcSource,
    \* --- fetch_recording_reviews called on its own (SpecFetch) ---
    response_stars,         \* the 'stars' of the reviews of the response
    fetched,                \* the List[ReviewData] returned
    pcFetch,
    \* --- the grouping of lines 352-354 and 381-382 on its own (SpecGroup) ---
    group_inputs,           \* per recording, its 'date' and 'venue'
    grouped,                \* shows_data, of identifiers
    gidx,                   \* the next recording to group, 0 when idle
    \* --- one show group in binary64 arithmetic (SpecFloat) ---
    float_inputs,           \* per recording, its source type and its stars
    float_group,            \* the recordings grouped by the first loop
    float_show,             \* the show rating and whether it is reported
    pcFloat

scoreVars == <<reviews, source_type, score, prev_reviews, prev_score, pcScore>>

showVars == <<recording_ratings, sorted_recordings, show_rating,
              prev_recording_ratings, prev_show_rating, pcShow>>

pipeVars == <<max_recordings, recording_ids, idx, shows_data,
              recording_ratings_data, processed_count, sidx,
              show_ratings_data, top_shows, ratings_data, below_threshold, pc>>

dateVars == <<date_arg, normalized, renormalized, pcDate>>

sourceVars == <<title_arg, description_arg, classified, pcSource>>

fetchVars == <<response_stars, fetched, pcFetch>>

groupVars == <<group_inputs, grouped, gidx>>

floatVars == <<float_inputs, float_group, float_show, pcFloat>>

pureVars == <<dateVars, sourceVars, fetchVars, groupVars, floatVars>>

vars == <<scoreVars, showVars, pipeVars, pureVars>>

\* ------------------------------------------------------------------------
\* Bounds of the model
\* ------------------------------------------------------------------------
MaxReviews == 6
MaxRecordings == 3
MaxIds == 3

\* the most reviews in one reviews response (SpecFetch)
MaxResponse == 3

\* the most shows of a catalogue (SpecTop)
MaxShows == 150

\* ------------------------------------------------------------------------
\* Exact rational arithmetic standing for Python float arithmetic
\* ------------------------------------------------------------------------
Abs(i) == IF i < 0 THEN -i ELSE i

RECURSIVE GCD(_, _)
GCD(a, b) == IF b = 0 THEN a ELSE GCD(b, a % b)

Rat(n, d) ==
    LET g == GCD(Abs(n), Abs(d))
        s == IF d < 0 THEN -1 ELSE 1
    IN  <<(s * n) \div g, (s * d) \div g>>

RatInt(i)    == <<i, 1>>
RatAdd(x, y) == Rat(x[1] * y[2] + y[1] * x[2], x[2] * y[2])
RatMul(x, y) == Rat(x[1] * y[1], x[2] * y[2])
RatDiv(x, y) == Rat(x[1] * y[2], x[2] * y[1])
RatLt(x, y)  == x[1] * y[2] < y[1] * x[2]
RatLe(x, y)  == x[1] * y[2] <= y[1] * x[2]
RatGe(x, y)  == RatLe(y, x)
RatGt(x, y)  == RatLt(y, x)
RatMin(x, y) == IF RatLe(x, y) THEN x ELSE y

Zero == RatInt(0)
One  == RatInt(1)
Half == Rat(1, 2)

RECURSIVE SumSeq(_)
SumSeq(s) == IF s = <<>> THEN Zero ELSE RatAdd(Head(s), SumSeq(Tail(s)))

\* ------------------------------------------------------------------------
\* Python strings as sequences of characters
\* ------------------------------------------------------------------------
LowerCase ==
    <<"a", "b", "c", "d", "e", "f", "g", "h", "i", "j", "k", "l", "m",
      "n", "o", "p", "q", "r", "s", "t", "u", "v", "w", "x", "y", "z">>

UpperCase ==
    <<"A", "B", "C", "D", "E", "F", "G", "H", "I", "J", "K", "L", "M",
      "N", "O", "P", "Q", "R", "S", "T", "U", "V", "W", "X", "Y", "Z">>

\* str.upper(), character by character
UpperChar(c) ==
    IF \E i \in 1..26 : LowerCase[i] = c
    THEN UpperCase[CHOOSE i \in 1..26 : LowerCase[i] = c]
    ELSE c

Upper(s) == [i \in 1..Len(s) |-> UpperChar(s[i])]

\* pattern in text
Contains(text, pattern) ==
    \E i \in 1..(Len(text) - Len(pattern) + 1) :
        SubSeq(text, i, i + Len(pattern) - 1) = pattern

\* position of the first occurrence of the character c in s, 0 if none
FirstIndexOf(s, c) ==
    IF \E i \in 1..Len(s) : s[i] = c
    THEN CHOOSE i \in 1..Len(s) : s[i] = c /\ \A j \in 1..(i - 1) : s[j] # c
    ELSE 0

RECURSIVE Split(_, _)
\* s.split(c) for a one-character separator c
Split(s, c) ==
    LET i == FirstIndexOf(s, c)
    IN  IF i = 0 THEN <<s>>
        ELSE <<SubSeq(s, 1, i - 1)>> \o Split(SubSeq(s, i + 1, Len(s)), c)

\* s.replace(a, b) for one-character a and b
Replace(s, a, b) == [i \in 1..Len(s) |-> IF s[i] = a THEN b ELSE s[i]]

\* s.zfill(width): zeros go after a leading sign
Zfill(s, width) ==
    IF Len(s) >= width THEN s
    ELSE LET zeros == [i \in 1..(width - Len(s)) |-> "0"]
         IN  IF s # <<>> /\ s[1] \in {"+", "-"}
             THEN <<s[1]>> \o zeros \o Tail(s)
             ELSE zeros \o s

\* \d of a str pattern: the decimal digits of Unicode, of which the model
\* has the ASCII digits and ARABIC-INDIC DIGIT THREE, written "U+0663"
AsciiDigits == {"0", "1", "2", "3", "4", "5", "6", "7", "8", "9"}

\* the digit of 0..9
AsciiDigitOf(n) == <<"0", "1", "2", "3", "4", "5", "6", "7", "8", "9">>[n + 1]

IsDigit(c) == c \in AsciiDigits \cup {"U+0663"}

AllDigits(s) == \A i \in 1..Len(s) : IsDigit(s[i])

\* $ matches at the end of the string and before a newline that ends it
DollarCandidates(s) ==
    {s} \cup (IF s # <<>> /\ s[Len(s)] = "\n"
              THEN {SubSeq(s, 1, Len(s) - 1)} ELSE {})

\* re.match(r'^\d{a1,b1}<sep>\d{a2,b2}<sep>\d{a3,b3}$', s)
MatchThreeNumbers(s, sep, lo, hi) ==
    \E t \in DollarCandidates(s) :
        LET parts == Split(t, sep)
        IN  /\ Len(parts) = 3
            /\ \A k \in 1..3 :
                  /\ AllDigits(parts[k])
                  /\ Len(parts[k]) >= lo[k]
                  /\ Len(parts[k]) <= hi[k]

\* ------------------------------------------------------------------------
\* normalize_date
\* ------------------------------------------------------------------------
\* None, where a str is expected
NotRecognized == <<"None">>

\* truth value of an Optional[str]
Falsy(x) == x = NotRecognized \/ x = <<>>

normalize_date(date_str) ==
    IF Falsy(date_str) THEN NotRecognized
    ELSE LET d == Split(date_str, "T")[1] IN
         IF MatchThreeNumbers(d, "-", <<4, 2, 2>>, <<4, 2, 2>>) THEN d
         ELSE IF MatchThreeNumbers(d, "-", <<4, 1, 1>>, <<4, 2, 2>>)
         THEN LET parts == Split(d, "-")
              IN  parts[1] \o <<"-">> \o Zfill(parts[2], 2)
                           \o <<"-">> \o Zfill(parts[3], 2)
         ELSE IF MatchThreeNumbers(d, "/", <<1, 1, 4>>, <<2, 2, 4>>)
         THEN LET parts == Split(d, "/")
              IN  parts[3] \o <<"-">> \o Zfill(parts[1], 2)
                           \o <<"-">> \o Zfill(parts[2], 2)
         ELSE NotRecognized

\* ------------------------------------------------------------------------
\* extract_source_type
\* ------------------------------------------------------------------------
extract_source_type_no_upper(title, description) ==
    LET text == title \o <<" ">> \o description IN
    IF Contains(text, <<"S", "B", "D">>)
       \/ Contains(text, <<"S", "O", "U", "N", "D", "B", "O", "A", "R", "D">>)
    THEN "SBD"
    ELSE IF Contains(text, <<"M", "A", "T", "R", "I", "X">>) THEN "MATRIX"
    ELSE IF Contains(text, <<"A", "U", "D">>)
            \/ Contains(text, <<"A", "U", "D", "I", "E", "N", "C", "E">>)
    THEN "AUD"
    ELSE IF Contains(text, <<"F", "M">>)
            \/ Contains(text, <<"B", "R", "O", "A", "D", "C", "A", "S", "T">>)
    THEN "FM"
    ELSE IF Contains(text, <<"R", "E", "M", "A", "S", "T", "E", "R">>)
    THEN "REMASTER"
    ELSE "UNKNOWN"

extract_source_type(title, description) ==
    LET text == Upper(title \o <<" ">> \o description) IN
    IF Contains(text, <<"S", "B", "D">>)
       \/ Contains(text, <<"S", "O", "U", "N", "D", "B", "O", "A", "R", "D">>)
    THEN "SBD"
    ELSE IF Contains(text, <<"M", "A", "T", "R", "I", "X">>) THEN "MATRIX"
    ELSE IF Contains(text, <<"A", "U", "D">>)
            \/ Contains(text, <<"A", "U", "D", "I", "E", "N", "C", "E">>)
    THEN "AUD"
    ELSE IF Contains(text, <<"F", "M">>)
            \/ Contains(text, <<"B", "R", "O", "A", "D", "C", "A", "S", "T">>)
    THEN "FM"
    ELSE IF Contains(text, <<"R", "E", "M", "A", "S", "T", "E", "R">>)
    THEN "REMASTER"
    ELSE "UNKNOWN"

\* ------------------------------------------------------------------------
\* Natural numbers of any size: sequences of limbs below Base, the least
\* significant first, without a most significant zero
\* ------------------------------------------------------------------------
Base == 32768

LimbBits == 15

\* F(v), v being evaluated once
Bind(v, F(_)) == CHOOSE y \in {F(x) : x \in {v}} : TRUE

RECURSIVE Pow2(_)
Pow2(k) == IF k = 0 THEN 1 ELSE 2 * Pow2(k - 1)

RECURSIVE BigNorm(_)
BigNorm(a) ==
    IF a # <<>> /\ a[Len(a)] = 0 THEN BigNorm(SubSeq(a, 1, Len(a) - 1)) ELSE a

RECURSIVE BigOfInt(_)
BigOfInt(n) == IF n = 0 THEN <<>> ELSE <<n % Base>> \o BigOfInt(n \div Base)

Limb(a, i) == IF i <= Len(a) THEN a[i] ELSE 0

MaxOf(m, n) == IF m >= n THEN m ELSE n

MinOf(m, n) == IF m <= n THEN m ELSE n

RECURSIVE AddFrom(_, _, _, _)
AddFrom(a, b, i, carry) ==
    IF i > MaxOf(Len(a), Len(b))
    THEN IF carry = 0 THEN <<>> ELSE <<carry>>
    ELSE Bind(Limb(a, i) + Limb(b, i) + carry,
              LAMBDA x : <<x % Base>> \o AddFrom(a, b, i + 1, x \div Base))

BigAdd(a, b) ==
    Bind(a, LAMBDA x : Bind(b, LAMBDA y : AddFrom(x, y, 1, 0)))

\* a - b for a >= b
RECURSIVE SubFrom(_, _, _, _)
SubFrom(a, b, i, borrow) ==
    IF i > Len(a) THEN <<>>
    ELSE Bind(Limb(a, i) - Limb(b, i) - borrow,
              LAMBDA d : <<IF d < 0 THEN d + Base ELSE d>>
                            \o SubFrom(a, b, i + 1, IF d < 0 THEN 1 ELSE 0))

BigSub(a, b) ==
    Bind(a, LAMBDA x : Bind(b, LAMBDA y : BigNorm(SubFrom(x, y, 1, 0))))

RECURSIVE LtFrom(_, _, _)
LtFrom(a, b, i) ==
    IF i = 0 THEN FALSE
    ELSE IF a[i] # b[i] THEN a[i] < b[i]
    ELSE LtFrom(a, b, i - 1)

BigLt(a, b) ==
    Bind(a, LAMBDA x : Bind(b, LAMBDA y :
        IF Len(x) # Len(y) THEN Len(x) < Len(y) ELSE LtFrom(x, y, Len(x))))

\* a * k for 0 <= k <= Base
RECURSIVE MulSmallFrom(_, _, _, _)
MulSmallFrom(a, k, i, carry) ==
    IF i > Len(a)
    THEN IF carry = 0 THEN <<>> ELSE <<carry>>
    ELSE Bind(a[i] * k + carry,
              LAMBDA x : <<x % Base>> \o MulSmallFrom(a, k, i + 1, x \div Base))

BigMulSmall(a, k) ==
    Bind(a, LAMBDA x : Bind(k, LAMBDA n : BigNorm(MulSmallFrom(x, n, 1, 0))))

RECURSIVE MulFrom(_, _, _)
MulFrom(a, b, i) ==
    IF i > Len(b) THEN <<>>
    ELSE Bind(MulFrom(a, b, i + 1),
              LAMBDA rest : BigAdd(BigMulSmall(a, b[i]),
                                   IF rest = <<>> THEN <<>> ELSE <<0>> \o rest))

BigMul(a, b) ==
    Bind(a, LAMBDA x : Bind(b, LAMBDA y :
        IF x = <<>> THEN <<>> ELSE MulFrom(x, y, 1)))

\* <<a div k, a mod k>> for 0 < k <= Base, from the most significant limb
RECURSIVE DivSmallFrom(_, _, _, _)
DivSmallFrom(a, k, i, rem) ==
    IF i = 0 THEN <<<<>>, rem>>
    ELSE Bind(rem * Base + a[i],
              LAMBDA x : Bind(DivSmallFrom(a, k, i - 1, x % k),
                              LAMBDA rest : <<rest[1] \o <<x \div k>>, rest[2]>>))

BigDivSmall(a, k) ==
    Bind(a, LAMBDA x : Bind(k, LAMBDA n :
        BigNorm(DivSmallFrom(x, n, Len(x), 0)[1])))

RECURSIVE SmallBitLen(_)
SmallBitLen(n) == IF n = 0 THEN 0 ELSE 1 + SmallBitLen(n \div 2)

BitLen(a) ==
    Bind(a, LAMBDA x :
        IF x = <<>> THEN 0
        ELSE (Len(x) - 1) * LimbBits + SmallBitLen(x[Len(x)]))

\* a * 2^k and a div 2^k
Shl(a, k) ==
    Bind(a, LAMBDA x : Bind(k, LAMBDA n :
        IF x = <<>> THEN <<>>
        ELSE [i \in 1..(n \div LimbBits) |-> 0]
                \o BigMulSmall(x, Pow2(n % LimbBits))))

Shr(a, k) ==
    Bind(a, LAMBDA x : Bind(k, LAMBDA n :
        IF n \div LimbBits >= Len(x) THEN <<>>
        ELSE BigDivSmall(SubSeq(x, (n \div LimbBits) + 1, Len(x)),
                         Pow2(n % LimbBits))))

IsOdd(a) == a # <<>> /\ a[1] % 2 = 1

Bit(a, i) == (Limb(a, (i \div LimbBits) + 1) \div Pow2(i % LimbBits)) % 2

\* <<a div b, a mod b>> for b > 0, bit by bit from bit i of a downwards,
\* qr being <<quotient, remainder>> of the bits above bit i
DivModStep(a, b, i, qr) ==
    Bind(BigAdd(BigMulSmall(qr[2], 2), BigOfInt(Bit(a, i))),
         LAMBDA r : IF BigLt(r, b)
                    THEN <<BigMulSmall(qr[1], 2), r>>
                    ELSE <<BigAdd(BigMulSmall(qr[1], 2), <<1>>), BigSub(r, b)>>)

\* the steps for the bits i down to lo
RECURSIVE DivModBits(_, _, _, _, _)
DivModBits(a, b, i, lo, qr) ==
    IF i < lo THEN qr
    ELSE Bind(DivModStep(a, b, i, qr),
              LAMBDA next : DivModBits(a, b, i - 1, lo, next))

\* the steps for the bits i down to 0, a limb at a time
RECURSIVE DivModLimbs(_, _, _, _)
DivModLimbs(a, b, i, qr) ==
    IF i < 0 THEN qr
    ELSE Bind(DivModBits(a, b, i, MaxOf(0, i - LimbBits + 1), qr),
              LAMBDA next : DivModLimbs(a, b, i - LimbBits, next))

BigDivMod(a, b) ==
    Bind(a, LAMBDA x : Bind(b, LAMBDA y :
        DivModLimbs(x, y, BitLen(x) - 1, <<<<>>, <<>>>>)))

\* ------------------------------------------------------------------------
\* Python floats: IEEE 754 binary64, rounding to nearest, ties to even. A
\* float is <<m, e>> for m * 2^e with m odd, or <<<<>>, 0>> for 0.0; only
\* the normal range is modelled and no negative number
\* ------------------------------------------------------------------------
Precision == 53

FZero == <<<<>>, 0>>

RECURSIVE CanonicalFrom(_, _)
CanonicalFrom(m, e) ==
    IF m = <<>> THEN FZero
    ELSE IF m[1] = 0 THEN CanonicalFrom(Tail(m), e + LimbBits)
    ELSE IF m[1] % 2 = 0
    THEN Bind(BigDivSmall(m, 2), LAMBDA h : CanonicalFrom(h, e + 1))
    ELSE <<m, e>>

Canonical(m, e) ==
    Bind(m, LAMBDA x : Bind(e, LAMBDA n : CanonicalFrom(x, n)))

\* the float nearest to m * 2^e
RoundedFrom(m, e, s) ==
    Bind(Shr(m, s), LAMBDA q :
        Bind(BigSub(m, Shl(q, s)), LAMBDA r :
            IF BigLt(Shl(<<1>>, s - 1), r)
               \/ (r = Shl(<<1>>, s - 1) /\ IsOdd(q))
            THEN Canonical(BigAdd(q, <<1>>), e + s)
            ELSE Canonical(q, e + s)))

RoundToFloat(m, e) ==
    Bind(m, LAMBDA x : Bind(e, LAMBDA n :
        IF BitLen(x) <= Precision THEN Canonical(x, n)
        ELSE RoundedFrom(x, n, BitLen(x) - Precision)))

FloatOfInt(n) == Canonical(BigOfInt(n), 0)

FMul(x, y) ==
    Bind(x, LAMBDA a : Bind(y, LAMBDA b :
        RoundToFloat(BigMul(a[1], b[1]), a[2] + b[2])))

FAdd(x, y) ==
    Bind(x, LAMBDA a : Bind(y, LAMBDA b :
        IF a = FZero THEN b
        ELSE IF b = FZero THEN a
        ELSE RoundToFloat(BigAdd(Shl(a[1], a[2] - MinOf(a[2], b[2])),
                                 Shl(b[1], b[2] - MinOf(a[2], b[2]))),
                          MinOf(a[2], b[2]))))

\* x / y for y # 0.0: the quotient of the mantissas to 56 bits or more,
\* with one more bit that tells whether a remainder was left
FDivBy(a, b, k) ==
    Bind(BigDivMod(Shl(a[1], k), b[1]), LAMBDA qr :
        RoundToFloat(BigAdd(BigMulSmall(qr[1], 2),
                            IF qr[2] = <<>> THEN <<>> ELSE <<1>>),
                     a[2] - b[2] - k - 1))

FDiv(x, y) ==
    Bind(x, LAMBDA a : Bind(y, LAMBDA b :
        IF a = FZero THEN FZero
        ELSE FDivBy(a, b, MaxOf(0, 56 + BitLen(b[1]) - BitLen(a[1])))))

FLt(x, y) ==
    Bind(x, LAMBDA a : Bind(y, LAMBDA b :
        IF a = FZero THEN b # FZero
        ELSE IF b = FZero THEN FALSE
        ELSE BigLt(Shl(a[1], a[2] - MinOf(a[2], b[2])),
                   Shl(b[1], b[2] - MinOf(a[2], b[2])))))

FGe(x, y) == ~FLt(x, y)

FGt(x, y) == FLt(y, x)

FMin(x, y) == Bind(x, LAMBDA a : Bind(y, LAMBDA b : IF FLt(b, a) THEN b ELSE a))

\* the float of the decimal literal n/d
FloatOfRatio(n, d) == FDiv(FloatOfInt(n), FloatOfInt(d))

\* ------------------------------------------------------------------------
\* The rating arithmetic as Python evaluates it, in binary64
\* ------------------------------------------------------------------------
\* self.source_weights, each weight the float of its decimal literal
source_weights_float ==
    [SBD |-> FloatOfInt(1), MATRIX |-> FloatOfRatio(9, 10),
     AUD |-> FloatOfRatio(7, 10), FM |-> FloatOfRatio(8, 10),
     REMASTER |-> FloatOfInt(1)]

source_weights_float_get(t) ==
    IF t \in DOMAIN source_weights_float THEN source_weights_float[t]
    ELSE FloatOfRatio(1, 2)

\* self.min_rating_for_inclusion = 2.5
min_rating_for_inclusion_float == FloatOfRatio(5, 2)

\* sum(...) over floats, left to right from 0
RECURSIVE SumFloatFrom(_, _, _)
SumFloatFrom(s, i, acc) ==
    IF i > Len(s) THEN acc
    ELSE Bind(FAdd(acc, FloatOfInt(s[i])), LAMBDA next : SumFloatFrom(s, i + 1, next))

\* compute_recording_rating on whole-number stars
compute_recording_rating_float(stars, st) ==
    LET valid == SelectSeq(stars, LAMBDA v : v >= 1) IN
    IF valid = <<>> THEN FZero
    ELSE Bind(FDiv(SumFloatFrom(valid, 1, FZero), FloatOfInt(Len(valid))),
         LAMBDA avg_rating :
         Bind(FMul(avg_rating, source_weights_float_get(st)),
         LAMBDA weighted_rating :
         Bind(FMin(FDiv(FloatOfInt(Len(valid)), FloatOfInt(5)), FloatOfInt(1)),
         LAMBDA cf :
         FMul(weighted_rating,
              FAdd(FloatOfRatio(1, 2), FMul(FloatOfRatio(1, 2), cf))))))

\* the loop of compute_show_rating over the recordings, in their order:
\* acc is <<weighted_sum, total_weight>>
RECURSIVE show_sums_float(_, _, _)
show_sums_float(rs, i, acc) ==
    IF i > Len(rs) THEN acc
    ELSE Bind(FMul(FloatOfInt(rs[i].review_count),
                   source_weights_float_get(rs[i].source_type)),
         LAMBDA weight :
         Bind(<<FAdd(acc[1], FMul(rs[i].avg_rating, weight)), FAdd(acc[2], weight)>>,
         LAMBDA next : show_sums_float(rs, i + 1, next)))

\* show_avg_rating = weighted_sum / total_weight if total_weight > 0 else 0
show_avg_rating_float(rs) ==
    Bind(show_sums_float(rs, 1, <<FZero, FZero>>), LAMBDA sums :
        IF FGt(sums[2], FZero) THEN FDiv(sums[1], sums[2]) ELSE FZero)

\* ------------------------------------------------------------------------
\* Data classes
\* ------------------------------------------------------------------------
\* ReviewData: review_text and date are never read by the calculator
ReviewData(stars) == [stars |-> stars]

SourceTypes == {"SBD", "MATRIX", "AUD", "FM", "REMASTER", "UNKNOWN"}

\* self.source_weights
source_weights ==
    [SBD |-> Rat(1, 1), MATRIX |-> Rat(9, 10), AUD |-> Rat(7, 10),
     FM |-> Rat(8, 10), REMASTER |-> Rat(1, 1)]

\* self.source_weights.get(source_type, default)
source_weights_get(t, default) ==
    IF t \in DOMAIN source_weights THEN source_weights[t] ELSE default

\* ------------------------------------------------------------------------
\* compute_recording_rating
\* ------------------------------------------------------------------------
is_valid_review_strict(r) == RatGt(r.stars, One)

is_valid_review(r) == RatGe(r.stars, One)

\* [r for r in reviews if r.stars >= 1.0]
valid_reviews(rs) == SelectSeq(rs, is_valid_review)

StarsOf(rs) == [i \in 1..Len(rs) |-> rs[i].stars]

confidence_factor_unclamped(n) == RatDiv(RatInt(n), RatInt(5))

confidence_factor(n) == RatMin(RatDiv(RatInt(n), RatInt(5)), One)

compute_recording_rating_divided(rs, st) ==
    IF rs = <<>> THEN Zero
    ELSE LET valid == valid_reviews(rs) IN
         IF valid = <<>> THEN Zero
         ELSE LET avg_rating      == RatDiv(SumSeq(StarsOf(valid)), RatInt(Len(valid)))
                  source_weight   == source_weights_get(st, Half)
                  weighted_rating == RatMul(avg_rating, source_weight)
                  cf              == confidence_factor(Len(valid))
              IN  RatDiv(weighted_rating, RatAdd(Half, RatMul(Half, cf)))

compute_recording_rating(rs, st) ==
    IF rs = <<>> THEN Zero
    ELSE LET valid == valid_reviews(rs) IN
         IF valid = <<>> THEN Zero
         ELSE LET avg_rating      == RatDiv(SumSeq(StarsOf(valid)), RatInt(Len(valid)))
                  source_weight   == source_weights_get(st, Half)
                  weighted_rating == RatMul(avg_rating, source_weight)
                  cf              == confidence_factor(Len(valid))
              IN  RatMul(weighted_rating, RatAdd(Half, RatMul(Half, cf)))

\* ------------------------------------------------------------------------
\* compute_show_rating
\* ------------------------------------------------------------------------
\* the value None, where a ShowRating is expected
None == [none |-> TRUE]

RecordingRating(identifier, avg, count, st, rs) ==
    [identifier |-> identifier, avg_rating |-> avg, review_count |-> count,
     source_type |-> st, reviews |-> rs]

ShowRating(date, venue, avg, confidence, best, rs) ==
    [date |-> date, venue |-> venue, avg_rating |-> avg,
     confidence_score |-> confidence, best_recording_id |-> best,
     recording_ratings |-> rs]

sort_key_no_sbd(r) ==
    <<FALSE, r.review_count >= 5, r.avg_rating, r.review_count>>

\* the key of the sort: a Python tuple (bool, bool, float, int)
sort_key(r) ==
    <<r.source_type = "SBD" /\ r.review_count >= 3,
      r.review_count >= 5,
      r.avg_rating,
      r.review_count>>

\* Python's ordering of bool: False < True
BoolLt(a, b) == ~a /\ b

\* Python's lexicographic ordering of the key tuples
KeyLt(k, l) ==
    \/ BoolLt(k[1], l[1])
    \/ k[1] = l[1] /\ BoolLt(k[2], l[2])
    \/ k[1] = l[1] /\ k[2] = l[2] /\ RatLt(k[3], l[3])
    \/ k[1] = l[1] /\ k[2] = l[2] /\ k[3] = l[3] /\ k[4] < l[4]

Reverse(s) == [i \in 1..Len(s) |-> s[Len(s) + 1 - i]]

RECURSIVE InsertByKey(_, _)
\* x goes after every element whose key is not greater than its own
InsertByKey(x, s) ==
    IF s = <<>> THEN <<x>>
    ELSE IF KeyLt(sort_key(x), sort_key(Head(s))) THEN <<x>> \o s
         ELSE <<Head(s)>> \o InsertByKey(x, Tail(s))

RECURSIVE StableSortAscending(_)
\* list.sort is stable: equal keys keep the order of the list sorted
StableSortAscending(s) ==
    IF s = <<>> THEN <<>>
    ELSE InsertByKey(s[Len(s)], StableSortAscending(SubSeq(s, 1, Len(s) - 1)))

\* sorted(..., reverse=True) on ascending order then reversed: ties swapped
sorted_reverse_unstable(rs) == Reverse(StableSortAscending(rs))

\* sorted(recording_ratings, key=..., reverse=True): the list is reversed,
\* sorted ascending by a stable sort, and reversed again
sorted_reverse(rs) == Reverse(StableSortAscending(Reverse(rs)))

\* weight = recording.review_count * self.source_weights.get(type, 0.5)
recording_weight_no_count(r) == source_weights_get(r.source_type, Half)

recording_weight(r) ==
    RatMul(RatInt(r.review_count), source_weights_get(r.source_type, Half))

RECURSIVE weighted_sum(_)
weighted_sum(rs) ==
    IF rs = <<>> THEN Zero
    ELSE RatAdd(weighted_sum(SubSeq(rs, 1, Len(rs) - 1)),
                RatMul(rs[Len(rs)].avg_rating, recording_weight(rs[Len(rs)])))

RECURSIVE total_weight(_)
total_weight(rs) ==
    IF rs = <<>> THEN Zero
    ELSE RatAdd(total_weight(SubSeq(rs, 1, Len(rs) - 1)),
                recording_weight(rs[Len(rs)]))

show_avg_rating(rs) ==
    IF RatGt(total_weight(rs), Zero)
    THEN RatDiv(weighted_sum(rs), total_weight(rs))
    ELSE Zero

RECURSIVE total_reviews(_)
total_reviews(rs) ==
    IF rs = <<>> THEN 0 ELSE rs[1].review_count + total_reviews(Tail(rs))

confidence_score_by_recordings(rs) ==
    RatMin(RatDiv(RatInt(Len(rs)), RatInt(10)), One)

confidence_score(rs) ==
    RatMin(RatDiv(RatInt(total_reviews(rs)), RatInt(10)), One)

\* the placeholders assigned to show_date and show_venue
show_date == <<"1", "9", "7", "7", "-", "0", "5", "-", "0", "8">>

show_venue ==
    <<"B", "a", "r", "t", "o", "n", " ", "H", "a", "l", "l", ",", " ",
      "C", "o", "r", "n", "e", "l", "l", " ",
      "U", "n", "i", "v", "e", "r", "s", "i", "t", "y">>

compute_show_rating_zero_valued(rs) ==
    IF rs = <<>> THEN ShowRating(show_date, show_venue, Zero, Zero, "", rs)
    ELSE ShowRating(show_date, show_venue, show_avg_rating(rs),
                    confidence_score(rs), sorted_reverse(rs)[1].identifier, rs)

compute_show_rating(rs) ==
    IF rs = <<>> THEN None
    ELSE ShowRating(show_date, show_venue, show_avg_rating(rs),
                    confidence_score(rs), sorted_reverse(rs)[1].identifier, rs)

\* ------------------------------------------------------------------------
\* fetch_recording_reviews
\* ------------------------------------------------------------------------
\* the request or the decoding of the response raised
FetchFailed == <<"failed">>

\* response is the list of the 'stars' of the reviews of the response, each
\* already a float, 0 standing for an absent 'stars'
fetch_recording_reviews_keep_zero(response) ==
    IF response = FetchFailed THEN <<>>
    ELSE LET rated(stars) == RatGe(stars, Zero)
         IN  [i \in 1..Len(SelectSeq(response, rated)) |->
                 ReviewData(SelectSeq(response, rated)[i])]

fetch_recording_reviews(response) ==
    IF response = FetchFailed THEN <<>>
    ELSE LET rated(stars) == RatGt(stars, Zero)
         IN  [i \in 1..Len(SelectSeq(response, rated)) |->
                 ReviewData(SelectSeq(response, rated)[i])]

\* ------------------------------------------------------------------------
\* generate_ratings_data
\* ------------------------------------------------------------------------
min_reviews_for_confidence == 3

min_rating_for_inclusion == Rat(5, 2)

TopShowsLimit == 100

\* dict lookup and update for the dicts kept as <<[show_key |-> ...]>>
KeyIndex(d, k) ==
    IF \E i \in 1..Len(d) : d[i].show_key = k
    THEN CHOOSE i \in 1..Len(d) : d[i].show_key = k
    ELSE 0

\* shows_data[show_key].append(recording_rating)
shows_data_append(d, k, r) ==
    IF KeyIndex(d, k) = 0
    THEN Append(d, [show_key |-> k, recordings |-> <<r>>])
    ELSE [d EXCEPT ![KeyIndex(d, k)].recordings = Append(@, r)]

\* f"{normalized_date}_{venue.replace(' ', '_')}"
make_show_key_date_only(normalized_date, venue) == normalized_date

make_show_key(normalized_date, venue) ==
    normalized_date \o <<"_">> \o Replace(venue, " ", "_")

\* top_shows.sort(key=lambda x: x['rating'], reverse=True): the sort is
\* stable, so s[i] comes after the entries of a greater rating and after
\* the entries of its own rating that stand before it in s
sort_top_shows_unstable(s) ==
    LET place(i) ==
            Cardinality({j \in 1..Len(s) :
                \/ RatGt(s[j].rating, s[i].rating)
                \/ s[j].rating = s[i].rating /\ j > i}) + 1
    IN  [p \in 1..Len(s) |-> s[CHOOSE i \in 1..Len(s) : place(i) = p]]

sort_top_shows(s) ==
    LET place(i) ==
            Cardinality({j \in 1..Len(s) :
                \/ RatGt(s[j].rating, s[i].rating)
                \/ s[j].rating = s[i].rating /\ j < i}) + 1
    IN  [p \in 1..Len(s) |-> s[CHOOSE i \in 1..Len(s) : place(i) = p]]

\* s[:n]
Prefix(s, n) == SubSeq(s, 1, IF n < Len(s) THEN n ELSE Len(s))

\* the number of recording entries with review_count >= 3
well_reviewed_above(d) ==
    Cardinality({id \in DOMAIN d :
                    d[id].review_count > min_reviews_for_confidence})

well_reviewed(d) ==
    Cardinality({id \in DOMAIN d :
                    d[id].review_count >= min_reviews_for_confidence})

\* ------------------------------------------------------------------------
\* SpecScore: compute_recording_rating applied to bounded inputs
\* ------------------------------------------------------------------------
\* no call has returned yet: in place of a ShowRating, in place of a float
NotCalled == [called |-> FALSE]
NotScored == <<>>

\* the variables of the other specifications stay at these values
IdleScore ==
    /\ reviews = <<>>
    /\ source_type = "UNKNOWN"
    /\ score = NotScored
    /\ prev_reviews = <<>>
    /\ prev_score = NotScored
    /\ pcScore = "idle"

IdlePipe ==
    /\ max_recordings = 0
    /\ recording_ids = <<>>
    /\ idx = 1
    /\ shows_data = <<>>
    /\ recording_ratings_data = <<>>
    /\ processed_count = 0
    /\ sidx = 1
    /\ show_ratings_data = <<>>
    /\ top_shows = <<>>
    /\ ratings_data = NotCalled
    /\ below_threshold = {}
    /\ pc = "idle"

IdleDate ==
    /\ date_arg = <<>>
    /\ normalized = <<>>
    /\ renormalized = <<>>
    /\ pcDate = "idle"

IdleSource ==
    /\ title_arg = <<>>
    /\ description_arg = <<>>
    /\ classified = ""
    /\ pcSource = "idle"

IdleFetch ==
    /\ response_stars = <<>>
    /\ fetched = <<>>
    /\ pcFetch = "idle"

IdleGroup ==
    /\ group_inputs = <<>>
    /\ grouped = <<>>
    /\ gidx = 0

IdleFloat ==
    /\ float_inputs = <<>>
    /\ float_group = <<>>
    /\ float_show = <<>>
    /\ pcFloat = "idle"

IdlePure == IdleDate /\ IdleSource /\ IdleFetch /\ IdleGroup /\ IdleFloat

IdleShow ==
    /\ recording_ratings = <<>>
    /\ sorted_recordings = <<>>
    /\ show_rating = NotCalled
    /\ prev_recording_ratings = <<>>
    /\ prev_show_rating = NotCalled
    /\ pcShow = "idle"

\* stars of the reviews handed to the calculator: 0, 0.5, 1, 4, 5
StarsValues == {Rat(0, 1), Rat(1, 2), Rat(1, 1), Rat(4, 1), Rat(5, 1)}

ReviewValues == {ReviewData(s) : s \in StarsValues}

InitScore ==
    /\ reviews = <<>>
    /\ source_type \in SourceTypes
    /\ score = NotScored
    /\ prev_reviews = <<>>
    /\ prev_score = NotScored
    /\ pcScore = "input"
    /\ IdleShow
    /\ IdlePipe
    /\ IdlePure

\* the caller calls compute_recording_rating(reviews, source_type)
ScoreRecording ==
    /\ pcScore = "input"
    /\ score' = compute_recording_rating(reviews, source_type)
    /\ pcScore' = "scored"
    /\ UNCHANGED <<reviews, source_type, prev_reviews, prev_score>>
    /\ UNCHANGED <<showVars, pipeVars, pureVars>>

\* one more review arrives for the recording; the caller scores again
AppendReview ==
    /\ pcScore = "scored"
    /\ Len(reviews) < MaxReviews
    /\ \E r \in ReviewValues :
          /\ reviews' = Append(reviews, r)
          /\ score' = compute_recording_rating(Append(reviews, r), source_type)
    /\ prev_reviews' = reviews
    /\ prev_score' = score
    /\ UNCHANGED <<source_type, pcScore>>
    /\ UNCHANGED <<showVars, pipeVars, pureVars>>

NextScore == ScoreRecording \/ AppendReview

SpecScore == InitScore /\ [][NextScore]_vars

\* ------------------------------------------------------------------------
\* SpecShow: compute_show_rating applied to bounded inputs
\* ------------------------------------------------------------------------
\* identifiers of the recordings of one show, in the order they are appended
Identifiers == <<"rec1", "rec2", "rec3", "rec4", "rec5">>

\* the recordings a show is assembled from: <<source_type, review_count,
\* avg_rating>>; review counts on both sides of 3 and 5, totals on both
\* sides of 10, weights 1.0, 0.7 and the default 0.5, ratings 4.0 and 4.5
ShowInputs ==
    {<<"SBD", 0, Rat(9, 2)>>, <<"SBD", 3, Rat(4, 1)>>, <<"SBD", 3, Rat(9, 2)>>,
     <<"SBD", 5, Rat(4, 1)>>, <<"SBD", 8, Rat(9, 2)>>,
     <<"AUD", 0, Rat(4, 1)>>, <<"AUD", 3, Rat(9, 2)>>, <<"AUD", 5, Rat(9, 2)>>,
     <<"AUD", 8, Rat(4, 1)>>, <<"AUD", 8, Rat(9, 2)>>,
     <<"UNKNOWN", 0, Rat(9, 2)>>, <<"UNKNOWN", 3, Rat(4, 1)>>,
     <<"UNKNOWN", 5, Rat(4, 1)>>, <<"UNKNOWN", 8, Rat(9, 2)>>}

InitShow ==
    /\ recording_ratings = <<>>
    /\ sorted_recordings = <<>>
    /\ show_rating = NotCalled
    /\ prev_recording_ratings = <<>>
    /\ prev_show_rating = NotCalled
    /\ pcShow = "input"
    /\ IdleScore
    /\ IdlePipe
    /\ IdlePure

\* the caller calls compute_show_rating(recording_ratings)
AggregateShow ==
    /\ pcShow = "input"
    /\ show_rating' = compute_show_rating(recording_ratings)
    /\ sorted_recordings' = sorted_reverse(recording_ratings)
    /\ pcShow' = "done"
    /\ UNCHANGED <<recording_ratings, prev_recording_ratings, prev_show_rating>>
    /\ UNCHANGED <<scoreVars, pipeVars, pureVars>>

\* one more recording joins the show; the caller aggregates again
AppendRecording ==
    /\ pcShow = "done"
    /\ Len(recording_ratings) < MaxRecordings
    /\ \E v \in ShowInputs :
          LET r  == RecordingRating(Identifiers[Len(recording_ratings) + 1],
                                    v[3], v[2], v[1], <<>>)
              rs == Append(recording_ratings, r)
          IN  /\ recording_ratings' = rs
              /\ show_rating' = compute_show_rating(rs)
              /\ sorted_recordings' = sorted_reverse(rs)
    /\ prev_recording_ratings' = recording_ratings
    /\ prev_show_rating' = show_rating
    /\ UNCHANGED pcShow
    /\ UNCHANGED <<scoreVars, pipeVars, pureVars>>

NextShow == AggregateShow \/ AppendRecording

SpecShow == InitShow /\ [][NextShow]_vars

\* ------------------------------------------------------------------------
\* Spec: generate_ratings_data over the responses of Archive.org
\* ------------------------------------------------------------------------
Str_sbd == <<"s", "b", "d">>
Str_aud == <<"a", "u", "d">>
Str_gd  == <<"g", "d">>

\* the 'metadata' part of the responses to the metadata request; None when
\* the request failed
MetadataResponses ==
    {None,
     [title |-> Str_sbd, description |-> <<>>,
      date |-> <<"1", "9", "7", "7", "-", "0", "5", "-", "0", "8">>,
      venue |-> <<"A", " ", "B">>],
     [title |-> Str_gd, description |-> Str_aud,
      date |-> <<"1", "9", "7", "7", "-", "5", "-", "8">>,
      venue |-> <<"A", " ", "B">>],
     [title |-> Str_sbd, description |-> <<>>,
      date |-> <<"0", "5", "/", "0", "8", "/", "1", "9", "7", "7">>,
      venue |-> <<"A", "_", "B">>],
     [title |-> Str_gd, description |-> <<>>,
      date |-> <<"1", "9", "7", "7", "-", "0", "5", "-", "0", "9", "T", "0">>,
      venue |-> <<"C">>],
     [title |-> Str_sbd, description |-> <<>>,
      date |-> <<"M", "a", "y", " ", "8">>,
      venue |-> <<"C">>],
     \* a 'venue' that is null in the response
     [title |-> Str_gd, description |-> <<>>,
      date |-> <<"1", "9", "7", "7", "-", "0", "5", "-", "0", "9">>,
      venue |-> NotRecognized]}

\* the stars of the reviews of the responses to the reviews request
ReviewResponses ==
    {FetchFailed,
     <<>>,
     <<RatInt(5), RatInt(5), RatInt(5), RatInt(5), RatInt(5)>>,
     <<Rat(1, 2), RatInt(5), RatInt(5), RatInt(5)>>,
     <<RatInt(0), RatInt(5), RatInt(4), RatInt(5)>>,
     <<RatInt(5), RatInt(5)>>,
     <<RatInt(6), RatInt(6), RatInt(6)>>}

MaxRecordingsValues == {0, 1, 100}

Init ==
    /\ max_recordings \in MaxRecordingsValues
    /\ recording_ids = <<>>
    /\ idx = 1
    /\ shows_data = <<>>
    /\ recording_ratings_data = <<>>
    /\ processed_count = 0
    /\ sidx = 1
    /\ show_ratings_data = <<>>
    /\ top_shows = <<>>
    /\ ratings_data = NotCalled
    /\ below_threshold = {}
    /\ pc = "start"
    /\ IdleScore
    /\ IdleShow
    /\ IdlePure

\* get_grateful_dead_recordings() and the cut to max_recordings
GetRecordings ==
    /\ pc = "start"
    /\ \E n \in 0..MaxIds :
          LET found == SubSeq(Identifiers, 1, n)
          IN  recording_ids' =
                 IF max_recordings # 0 THEN Prefix(found, max_recordings)
                 ELSE found
    /\ pc' = "running"
    /\ UNCHANGED <<max_recordings, idx, shows_data, recording_ratings_data,
                   processed_count, sidx, show_ratings_data, top_shows,
                   ratings_data, below_threshold>>
    /\ UNCHANGED <<scoreVars, showVars, pureVars>>

\* what one iteration of the loop over recording_ids does to
\* <<recording_ratings_data, shows_data, processed_count, below_threshold>>
process_recording_filter_late(identifier, metadata, stars) ==
    LET skip == <<recording_ratings_data, shows_data, processed_count,
                  below_threshold>> IN
    IF metadata = None THEN skip
    ELSE LET revs == fetch_recording_reviews(stars) IN
    IF revs = <<>> THEN skip
    ELSE LET normalized_date == normalize_date(metadata.date) IN
    IF Falsy(normalized_date) THEN skip
    ELSE LET st         == extract_source_type(metadata.title, metadata.description)
             avg_rating == compute_recording_rating(revs, st)
             below      == RatLt(avg_rating, min_rating_for_inclusion)
             recording_rating ==
                 RecordingRating(identifier, avg_rating, Len(revs), st, revs)
             entry ==
                 [rating |-> avg_rating, review_count |-> Len(revs),
                  source_type |-> st,
                  confidence |-> RatMin(RatDiv(RatInt(Len(revs)), RatInt(5)), One)]
             stored == IF below THEN recording_ratings_data
                       ELSE (identifier :> entry) @@ recording_ratings_data
             noted  == IF below THEN below_threshold \cup {identifier}
                       ELSE below_threshold
         IN
    IF metadata.venue = NotRecognized
    THEN <<stored, shows_data, processed_count, noted>>
    ELSE <<stored,
           shows_data_append(shows_data,
                             make_show_key(normalized_date, metadata.venue),
                             recording_rating),
           processed_count + 1, noted>>

process_recording(identifier, metadata, stars) ==
    LET skip == <<recording_ratings_data, shows_data, processed_count,
                  below_threshold>> IN
    IF metadata = None THEN skip
    ELSE LET revs == fetch_recording_reviews(stars) IN
    IF revs = <<>> THEN skip
    ELSE LET normalized_date == normalize_date(metadata.date) IN
    IF Falsy(normalized_date) THEN skip
    ELSE LET st         == extract_source_type(metadata.title, metadata.description)
             avg_rating == compute_recording_rating(revs, st)
         IN
    IF RatLt(avg_rating, min_rating_for_inclusion)
    THEN <<recording_ratings_data, shows_data, processed_count,
           below_threshold \cup {identifier}>>
    ELSE LET recording_rating ==
                 RecordingRating(identifier, avg_rating, Len(revs), st, revs)
             entry ==
                 [rating |-> avg_rating, review_count |-> Len(revs),
                  source_type |-> st,
                  confidence |-> RatMin(RatDiv(RatInt(Len(revs)), RatInt(5)), One)]
             stored == (identifier :> entry) @@ recording_ratings_data
         IN
    \* venue.replace raises when venue is not a str, after the entry was
    \* stored; the except clause goes on with the next identifier
    IF metadata.venue = NotRecognized
    THEN <<stored, shows_data, processed_count, below_threshold>>
    ELSE <<stored,
           shows_data_append(shows_data,
                             make_show_key(normalized_date, metadata.venue),
                             recording_rating),
           processed_count + 1, below_threshold>>

\* one iteration of the loop over recording_ids
ProcessRecording ==
    /\ pc = "running"
    /\ idx <= Len(recording_ids)
    /\ \E metadata \in MetadataResponses, stars \in ReviewResponses :
          \E out \in {process_recording(recording_ids[idx], metadata, stars)} :
              /\ recording_ratings_data' = out[1]
              /\ shows_data' = out[2]
              /\ processed_count' = out[3]
              /\ below_threshold' = out[4]
    /\ idx' = idx + 1
    /\ UNCHANGED <<max_recordings, recording_ids, sidx, show_ratings_data,
                   top_shows, ratings_data, pc>>
    /\ UNCHANGED <<scoreVars, showVars, pureVars>>

\* one iteration of the loop over shows_data.items()
ComputeShow ==
    /\ pc = "running"
    /\ idx > Len(recording_ids)
    /\ sidx <= Len(shows_data)
    /\ LET show_key   == shows_data[sidx].show_key
           recordings == shows_data[sidx].recordings
           sr         == compute_show_rating(recordings)
       IN  /\ show_rating' = sr
           /\ IF sr # None /\ RatGe(sr.avg_rating, min_rating_for_inclusion)
              THEN /\ show_ratings_data' =
                         Append(show_ratings_data,
                                [show_key |-> show_key,
                                 date |-> sr.date,
                                 venue |-> sr.venue,
                                 rating |-> sr.avg_rating,
                                 confidence |-> sr.confidence_score,
                                 best_recording |-> sr.best_recording_id,
                                 recording_count |-> Len(recordings)])
                   /\ top_shows' =
                         IF RatGe(sr.confidence_score, Rat(7, 10))
                         THEN Append(top_shows,
                                     [show_key |-> show_key,
                                      rating |-> sr.avg_rating,
                                      date |-> sr.date,
                                      venue |-> sr.venue])
                         ELSE top_shows
              ELSE UNCHANGED <<show_ratings_data, top_shows>>
    /\ sidx' = sidx + 1
    /\ UNCHANGED <<max_recordings, recording_ids, idx, shows_data,
                   recording_ratings_data, processed_count, ratings_data,
                   below_threshold, pc>>
    /\ UNCHANGED <<recording_ratings, sorted_recordings,
                   prev_recording_ratings, prev_show_rating, pcShow>>
    /\ UNCHANGED <<scoreVars, pureVars>>

\* the sort of top_shows and the dataset returned
CompileDataset ==
    /\ pc = "running"
    /\ idx > Len(recording_ids)
    /\ sidx > Len(shows_data)
    /\ top_shows' = sort_top_shows(top_shows)
    /\ ratings_data' =
          [metadata |->
              [version |-> "1.0.0",
               total_recordings |-> Cardinality(DOMAIN recording_ratings_data),
               total_shows |-> Len(show_ratings_data),
               processed |-> processed_count,
               well_reviewed |-> well_reviewed(recording_ratings_data)],
           recording_ratings |-> recording_ratings_data,
           show_ratings |-> show_ratings_data,
           top_shows |-> Prefix(sort_top_shows(top_shows), TopShowsLimit)]
    /\ pc' = "done"
    /\ UNCHANGED <<max_recordings, recording_ids, idx, shows_data,
                   recording_ratings_data, processed_count, sidx,
                   show_ratings_data, below_threshold>>
    /\ UNCHANGED <<scoreVars, showVars, pureVars>>

Next == GetRecordings \/ ProcessRecording \/ ComputeShow \/ CompileDataset

Spec == Init /\ [][Next]_vars



\* ------------------------------------------------------------------------
\* SpecDate: normalize_date applied to bounded inputs, and to its own result
\* ------------------------------------------------------------------------
\* the date strings are <number><sep><number><sep><number><suffix>
DateFirst ==
    {<<"1", "9", "7", "7">>, <<"7", "7">>, <<"0", "5">>, <<"5">>,
     <<"1", "9", "7", "U+0663">>}

DateSecond == {<<"5">>, <<"0", "5">>, <<"0", "0", "5">>}

DateThird == {<<"8">>, <<"0", "8">>, <<"1", "9", "7", "7">>}

DateSeparators == {<<"-">>, <<"/">>}

DateSuffixes == {<<>>, <<"T", "0", "0">>, <<"T">>, <<"\n">>, <<"Z">>}

DateInputs ==
    {<<>>, NotRecognized, <<"T", "7", "7">>}
    \cup {a \o s1 \o b \o s2 \o c \o x :
             a \in DateFirst, s1 \in DateSeparators, b \in DateSecond,
             s2 \in DateSeparators, c \in DateThird, x \in DateSuffixes}

InitDate ==
    /\ date_arg \in DateInputs
    /\ normalized = <<>>
    /\ renormalized = <<>>
    /\ pcDate = "input"
    /\ IdleSource
    /\ IdleFetch
    /\ IdleGroup
    /\ IdleFloat
    /\ IdleScore
    /\ IdleShow
    /\ IdlePipe

NormalizeDate ==
    /\ pcDate = "input"
    /\ normalized' = normalize_date(date_arg)
    /\ pcDate' = "normalized"
    /\ UNCHANGED <<date_arg, renormalized>>
    /\ UNCHANGED <<sourceVars, fetchVars, groupVars, floatVars, scoreVars, showVars,
                   pipeVars>>

NormalizeAgain ==
    /\ pcDate = "normalized"
    /\ renormalized' = normalize_date(normalized)
    /\ pcDate' = "again"
    /\ UNCHANGED <<date_arg, normalized>>
    /\ UNCHANGED <<sourceVars, fetchVars, groupVars, floatVars, scoreVars, showVars,
                   pipeVars>>

NextDate == NormalizeDate \/ NormalizeAgain

SpecDate == InitDate /\ [][NextDate]_vars


\* ------------------------------------------------------------------------
\* SpecSource: extract_source_type applied to bounded inputs
\* ------------------------------------------------------------------------
Str_example == <<"G", "D", " ", "S", "B", "D", " ", "F", "M", " ", "B", "r", "o", "a", "d", "c", "a", "s", "t">>

Titles ==
    {Str_example,
     <<"g", "d">>,
     <<"S", "o", "u", "n", "d", "b", "o", "a", "r", "d">>,
     <<"m", "a", "t", "r", "i", "x", " ", "a", "u", "d">>,
     <<"A", "u", "d", "i", "e", "n", "c", "e">>,
     <<"f", "m">>,
     <<"B", "r", "o", "a", "d", "c", "a", "s", "t", " ", "r", "e", "m", "a", "s", "t", "e", "r">>,
     <<"r", "e", "m", "a", "s", "t", "e", "r">>,
     <<"f", "m", "a", "t", "r", "i", "x">>,
     <<"s", "b">>,
     <<>>,
     <<"a", "u">>}

Descriptions ==
    {<<>>,
     <<"d">>,
     <<"s", "b", "d">>,
     <<"a", "u", "d", "i", "e", "n", "c", "e", " ", "f", "m">>,
     <<"M", "A", "T", "R", "I", "X">>,
     <<"r", "e", "m", "a", "s", "t", "e", "r">>,
     <<"F", "m">>,
     <<"g", "d">>,
     <<"b", "r", "o", "a", "d", "c", "a", "s", "t">>}

InitSource ==
    /\ title_arg \in Titles
    /\ description_arg \in Descriptions
    /\ classified = ""
    /\ pcSource = "input"
    /\ IdleDate
    /\ IdleFetch
    /\ IdleGroup
    /\ IdleFloat
    /\ IdleScore
    /\ IdleShow
    /\ IdlePipe

ExtractSourceType ==
    /\ pcSource = "input"
    /\ classified' = extract_source_type(title_arg, description_arg)
    /\ pcSource' = "classified"
    /\ UNCHANGED <<title_arg, description_arg>>
    /\ UNCHANGED <<dateVars, fetchVars, groupVars, floatVars, scoreVars, showVars,
                   pipeVars>>

NextSource == ExtractSourceType

SpecSource == InitSource /\ [][NextSource]_vars


\* ------------------------------------------------------------------------
\* SpecFetch: fetch_recording_reviews applied to bounded responses
\* ------------------------------------------------------------------------
\* float(review.get('stars', 0)): 0 when 'stars' is absent
RawStars ==
    {Rat(0, 1), Rat(0 - 1, 1), Rat(1, 2), Rat(1, 1), Rat(5, 1), Rat(6, 1)}

RawResponses ==
    {FetchFailed} \cup UNION {[1..n -> RawStars] : n \in 0..MaxResponse}

InitFetch ==
    /\ response_stars \in RawResponses
    /\ fetched = <<>>
    /\ pcFetch = "input"
    /\ IdleDate
    /\ IdleSource
    /\ IdleGroup
    /\ IdleFloat
    /\ IdleScore
    /\ IdleShow
    /\ IdlePipe

FetchReviews ==
    /\ pcFetch = "input"
    /\ fetched' = fetch_recording_reviews(response_stars)
    /\ pcFetch' = "fetched"
    /\ UNCHANGED response_stars
    /\ UNCHANGED <<dateVars, sourceVars, groupVars, floatVars, scoreVars, showVars,
                   pipeVars>>

NextFetch == FetchReviews

SpecFetch == InitFetch /\ [][NextFetch]_vars


\* ------------------------------------------------------------------------
\* SpecGroup: the grouping of two recordings by show_key (lines 352-354 and
\* 381-382), the recordings standing for themselves by their identifiers
\* ------------------------------------------------------------------------
GroupDates ==
    {<<"1", "9", "7", "7", "-", "0", "5", "-", "0", "8">>,
     <<"1", "9", "7", "7", "-", "5", "-", "8">>,
     <<"0", "5", "/", "0", "8", "/", "1", "9", "7", "7">>,
     <<"1", "9", "7", "7", "-", "0", "5", "-", "0", "9", "T", "0">>,
     <<"M", "a", "y", " ", "8">>}

GroupVenues ==
    {<<"A", " ", "B">>, <<"A", "_", "B">>, <<"C">>, <<>>}

GroupInputs == [date : GroupDates, venue : GroupVenues]

\* the recordings grouped
GroupSize == 2

InitGroup ==
    /\ group_inputs \in [1..GroupSize -> GroupInputs]
    /\ grouped = <<>>
    /\ gidx = 1
    /\ IdleDate
    /\ IdleSource
    /\ IdleFetch
    /\ IdleFloat
    /\ IdleScore
    /\ IdleShow
    /\ IdlePipe

GroupRecording ==
    /\ gidx \in 1..GroupSize
    /\ LET normalized_date == normalize_date(group_inputs[gidx].date)
           venue           == group_inputs[gidx].venue
       IN  grouped' =
              IF Falsy(normalized_date) THEN grouped
              ELSE shows_data_append(grouped,
                                     make_show_key(normalized_date, venue),
                                     Identifiers[gidx])
    /\ gidx' = gidx + 1
    /\ UNCHANGED group_inputs
    /\ UNCHANGED <<dateVars, sourceVars, fetchVars, floatVars, scoreVars, showVars,
                   pipeVars>>

NextGroup == GroupRecording

SpecGroup == InitGroup /\ [][NextGroup]_vars


\* ------------------------------------------------------------------------
\* SpecTop: the loop over shows_data.items() and the compilation of the
\* dataset, started where the first loop has ended on a catalogue of n
\* recordings, each the only recording of its show
\* ------------------------------------------------------------------------
CatalogueSizes ==
    {0, 3, TopShowsLimit - 1, TopShowsLimit, TopShowsLimit + 1, MaxShows}

CatalogueId(i) == "rec" \o ToString(i)

TwoDigits(n) == <<AsciiDigitOf(n \div 10), AsciiDigitOf(n % 10)>>

\* the i-th recording is of the i-th day of months of 28 days of 1977
CatalogueDate(i) ==
    <<"1", "9", "7", "7", "-">> \o TwoDigits(((i - 1) \div 28) + 1)
        \o <<"-">> \o TwoDigits(((i - 1) % 28) + 1)

CatalogueVenue == <<"A", " ", "B">>

Stars(n, s) == [k \in 1..n |-> RatInt(s)]

\* title and stars of the reviews, by turns: an SBD with eight 5-star
\* reviews, an AUD with seven, an SBD with eight 4-star reviews and, in a
\* mixed catalogue, an SBD with five 5-star reviews
CatalogueKind(i, mixed) ==
    LET kinds == <<[title |-> Str_sbd, stars |-> Stars(8, 5)],
                   [title |-> Str_aud, stars |-> Stars(7, 5)],
                   [title |-> Str_sbd, stars |-> Stars(8, 4)],
                   [title |-> Str_sbd, stars |-> Stars(5, 5)]>>
    IN  kinds[(i % (IF mixed THEN 4 ELSE 3)) + 1]

\* what lines 346-370 make of the i-th recording
CatalogueRecording(i, mixed) ==
    LET revs == fetch_recording_reviews(CatalogueKind(i, mixed).stars)
        st   == extract_source_type(CatalogueKind(i, mixed).title, <<>>)
    IN  RecordingRating(CatalogueId(i), compute_recording_rating(revs, st),
                        Len(revs), st, revs)

\* what lines 373-378 store for the i-th recording
CatalogueEntry(i, mixed) ==
    LET r == CatalogueRecording(i, mixed)
    IN  [rating |-> r.avg_rating, review_count |-> r.review_count,
         source_type |-> r.source_type,
         confidence |-> RatMin(RatDiv(RatInt(r.review_count), RatInt(5)), One)]

InitTop ==
    /\ \E n \in CatalogueSizes, mixed \in BOOLEAN :
          /\ recording_ids = [i \in 1..n |-> CatalogueId(i)]
          /\ idx = n + 1
          /\ shows_data =
                [i \in 1..n |->
                    [show_key |-> make_show_key(normalize_date(CatalogueDate(i)),
                                                CatalogueVenue),
                     recordings |-> <<CatalogueRecording(i, mixed)>>]]
          /\ recording_ratings_data =
                [id \in {CatalogueId(i) : i \in 1..n} |->
                    CatalogueEntry(CHOOSE i \in 1..n : CatalogueId(i) = id,
                                   mixed)]
          /\ processed_count = n
    /\ max_recordings = 0
    /\ sidx = 1
    /\ show_ratings_data = <<>>
    /\ top_shows = <<>>
    /\ ratings_data = NotCalled
    /\ below_threshold = {}
    /\ pc = "running"
    /\ IdleScore
    /\ IdleShow
    /\ IdlePure

NextTop == ComputeShow \/ CompileDataset

SpecTop == InitTop /\ [][NextTop]_vars

\* ------------------------------------------------------------------------
\* One show group of generate_ratings_data in binary64 arithmetic
\* ------------------------------------------------------------------------
MaxFloatGroup == 3

\* a recording as the first loop sees it: its source type and the stars of
\* its fetched reviews
FloatRecordings ==
    { [source_type |-> "AUD",     stars |-> <<5, 5, 5, 5, 3, 1, 1>>],
      [source_type |-> "AUD",     stars |-> <<3, 3, 3>>],
      [source_type |-> "FM",      stars |-> <<5, 5, 4>>],
      [source_type |-> "MATRIX",  stars |-> <<5, 4, 5>>],
      [source_type |-> "SBD",     stars |-> <<4, 4, 3, 5>>],
      [source_type |-> "UNKNOWN", stars |-> <<5, 5, 5, 5, 5>>] }

FloatInputs ==
    UNION { [1..n -> FloatRecordings] : n \in 1..MaxFloatGroup }

InitFloat ==
    /\ float_inputs \in FloatInputs
    /\ float_group = <<>>
    /\ float_show = <<>>
    /\ pcFloat = "input"
    /\ IdleDate
    /\ IdleSource
    /\ IdleFetch
    /\ IdleGroup
    /\ IdleScore
    /\ IdleShow
    /\ IdlePipe

\* the first loop over the recordings of one date and venue: a recording
\* rated below the threshold is skipped, the others are appended to the group
GroupScored ==
    /\ pcFloat = "input"
    /\ \E scored \in {[i \in 1..Len(float_inputs) |->
            [avg_rating   |-> compute_recording_rating_float(
                                  float_inputs[i].stars, float_inputs[i].source_type),
             review_count |-> Len(float_inputs[i].stars),
             source_type  |-> float_inputs[i].source_type]]} :
         float_group' = SelectSeq(scored,
             LAMBDA r : ~FLt(r.avg_rating, min_rating_for_inclusion_float))
    /\ pcFloat' = "grouped"
    /\ UNCHANGED <<float_inputs, float_show>>
    /\ UNCHANGED <<dateVars, sourceVars, fetchVars, groupVars, scoreVars, showVars,
                   pipeVars>>

\* the second loop on that group: the show is rated and, at or above the
\* threshold, written to show_ratings_data; an empty group has no show key
RateGroup ==
    /\ pcFloat = "grouped"
    /\ IF float_group = <<>>
       THEN float_show' = [avg_rating |-> FZero, reported |-> FALSE]
       ELSE \E avg \in {show_avg_rating_float(float_group)} :
                float_show' = [avg_rating |-> avg,
                               reported   |-> FGe(avg, min_rating_for_inclusion_float)]
    /\ pcFloat' = "rated"
    /\ UNCHANGED <<float_inputs, float_group>>
    /\ UNCHANGED <<dateVars, sourceVars, fetchVars, groupVars, scoreVars, showVars,
                   pipeVars>>

NextFloat == GroupScored \/ RateGroup

SpecFloat == InitFloat /\ [][NextFloat]_vars

\* ------------------------------------------------------------------------
\* Claims about compute_recording_rating (checked under SpecScore)
\* ------------------------------------------------------------------------
\* the reviews that qualify (stars >= 1.0), by position
QualifyingIdx(rs) == {i \in 1..Len(rs) : rs[i].stars[1] >= rs[i].stars[2]}

QualifyingCount(rs) == Cardinality(QualifyingIdx(rs))

RECURSIVE SumOver(_, _)
SumOver(rs, I) ==
    IF I = {} THEN Zero
    ELSE LET i == CHOOSE j \in I : TRUE
         IN  RatAdd(rs[i].stars, SumOver(rs, I \ {i}))

RawAverage(rs) ==
    RatDiv(SumOver(rs, QualifyingIdx(rs)), RatInt(QualifyingCount(rs)))

StatedWeight(t) ==
    CASE t = "SBD"      -> Rat(10, 10)
      [] t = "MATRIX"   -> Rat(9, 10)
      [] t = "AUD"      -> Rat(7, 10)
      [] t = "FM"       -> Rat(8, 10)
      [] t = "REMASTER" -> Rat(10, 10)
      [] OTHER          -> Rat(5, 10)

StatedDamping(n) == IF n >= 5 THEN One ELSE Rat(5 + n, 10)

Scored == pcScore = "scored"

Stars545 == <<ReviewData(RatInt(5)), ReviewData(RatInt(4)), ReviewData(RatInt(5))>>

\* C4: with n >= 1 qualifying reviews the score is
\* mean(qualifying stars) * sourceWeight * (0.5 + 0.5 * min(n/5, 1)); the
\* damping is 0.9 at n = 4 and 1.0 for n >= 5; [5,4,5] with SBD gives 56/15.
C4_ScoreFormula ==
    Scored /\ QualifyingCount(reviews) >= 1 =>
        /\ score = RatMul(RatMul(RawAverage(reviews), StatedWeight(source_type)),
                          StatedDamping(QualifyingCount(reviews)))
        /\ QualifyingCount(reviews) = 4 =>
              score = RatMul(RatMul(RawAverage(reviews), StatedWeight(source_type)),
                             Rat(9, 10))
        /\ QualifyingCount(reviews) >= 5 =>
              score = RatMul(RawAverage(reviews), StatedWeight(source_type))
        /\ reviews = Stars545 /\ source_type = "SBD" => score = <<56, 15>>

C4_Witness ==
    /\ Scored
    /\ QualifyingCount(reviews) = 6
    /\ Len(reviews) = 6
    /\ source_type = "AUD"
    /\ score = Rat(35, 10)

C4_WitnessExample ==
    Scored /\ reviews = Stars545 /\ source_type = "SBD" /\ score = <<56, 15>>

\* C5: the score is 0 iff the review list is empty or holds no review with
\* stars >= 1.0; with a qualifying review it is strictly positive.
C5_ZeroIffNoQualifying ==
    Scored =>
        /\ score = Zero <=> QualifyingCount(reviews) = 0
        /\ QualifyingCount(reviews) >= 1 => RatGt(score, Zero)

C5_Witness ==
    /\ Scored
    /\ reviews = <<ReviewData(Rat(1, 2)), ReviewData(Rat(0, 1))>>
    /\ score = Zero

\* C7: appending one qualifying review whose stars are above the current raw
\* average never decreases the score while the qualifying count stays < 5.
AppendedAboveAverage ==
    /\ Scored
    /\ prev_score # NotScored
    /\ reviews = Append(prev_reviews, reviews[Len(reviews)])
    /\ QualifyingCount(prev_reviews) >= 1
    /\ Len(reviews) \in QualifyingIdx(reviews)
    /\ RatGt(reviews[Len(reviews)].stars, RawAverage(prev_reviews))
    /\ QualifyingCount(reviews) < 5

C7_Monotone == AppendedAboveAverage => RatGe(score, prev_score)

C7_Witness ==
    /\ AppendedAboveAverage
    /\ QualifyingCount(reviews) = 4
    /\ RatGt(score, prev_score)

\* ------------------------------------------------------------------------
\* Claims about compute_show_rating (checked under SpecShow)
\* ------------------------------------------------------------------------
Aggregated == pcShow = "done"

IsShowRating(x) == x # None /\ x # NotCalled

NoRecordingsError == [raised |-> "NoRecordingsError"]

\* C1 as stated: aggregating an empty list signals a NoRecordingsError.
C1_EmptySignalsError ==
    Aggregated /\ recording_ratings = <<>> => show_rating = NoRecordingsError

\* C1 as amended: aggregating an empty list returns None, without raising,
\* and a ShowRating is returned only for a non-empty list, so a zero-valued
\* ShowRating is never returned for the empty list.
C1_EmptyReturnsNone ==
    Aggregated =>
        /\ recording_ratings = <<>> => show_rating = None
        /\ IsShowRating(show_rating) => recording_ratings # <<>>

C1_Witness ==
    Aggregated /\ recording_ratings = <<>> /\ show_rating = None

\* the composite key as the claim states it, compared lexicographically
StatedKeyGreater(r, q) ==
    LET r1 == r.source_type = "SBD" /\ r.review_count >= 3
        q1 == q.source_type = "SBD" /\ q.review_count >= 3
        r2 == r.review_count >= 5
        q2 == q.review_count >= 5
    IN  \/ r1 /\ ~q1
        \/ r1 = q1 /\ r2 /\ ~q2
        \/ r1 = q1 /\ r2 = q2 /\ RatGt(r.avg_rating, q.avg_rating)
        \/ r1 = q1 /\ r2 = q2 /\ r.avg_rating = q.avg_rating
              /\ r.review_count > q.review_count

StatedKeyEqual(r, q) == ~StatedKeyGreater(r, q) /\ ~StatedKeyGreater(q, r)

\* position i holds the first recording, in input order, of maximal key
FirstOfMaximalKey(rs, i) ==
    /\ \A j \in 1..Len(rs) : ~StatedKeyGreater(rs[j], rs[i])
    /\ \A j \in 1..(i - 1) : ~StatedKeyEqual(rs[j], rs[i])

PositionOf(rs, id) == CHOOSE i \in 1..Len(rs) : rs[i].identifier = id

\* C2: for a non-empty input the best recording is an element of the input,
\* the first in input order among those of maximal composite key, and
\* recordings of equal key keep their input order in the sorted list.
C2_BestIsFirstOfMaximalKey ==
    Aggregated /\ recording_ratings # <<>> =>
        /\ IsShowRating(show_rating)
        /\ \E i \in 1..Len(recording_ratings) :
              /\ show_rating.best_recording_id = recording_ratings[i].identifier
              /\ FirstOfMaximalKey(recording_ratings, i)
        /\ Len(sorted_recordings) = Len(recording_ratings)
        /\ \A i, j \in 1..Len(sorted_recordings) :
              i < j =>
                 /\ ~StatedKeyGreater(sorted_recordings[j], sorted_recordings[i])
                 /\ StatedKeyEqual(sorted_recordings[i], sorted_recordings[j]) =>
                       PositionOf(recording_ratings, sorted_recordings[i].identifier)
                         < PositionOf(recording_ratings, sorted_recordings[j].identifier)

\* three recordings, the last two of equal maximal key: the second is best
C2_Witness ==
    /\ Aggregated
    /\ Len(recording_ratings) = 3
    /\ StatedKeyGreater(recording_ratings[2], recording_ratings[1])
    /\ StatedKeyEqual(recording_ratings[2], recording_ratings[3])
    /\ show_rating.best_recording_id = recording_ratings[2].identifier

SbdWellReviewed(r) == r.source_type = "SBD" /\ r.review_count >= 3

\* C3: if some recording of the input is SBD with review_count >= 3, the
\* best recording is an SBD recording with review_count >= 3.
C3_SbdPreferred ==
    Aggregated /\ (\E i \in 1..Len(recording_ratings) :
                      SbdWellReviewed(recording_ratings[i])) =>
        \E i \in 1..Len(recording_ratings) :
            /\ recording_ratings[i].identifier = show_rating.best_recording_id
            /\ SbdWellReviewed(recording_ratings[i])

\* B{AUD, 8 reviews, 4.5} then A{SBD, 3 reviews, 4.0}: A is selected
C3_Witness ==
    /\ Aggregated
    /\ recording_ratings =
          <<RecordingRating("rec1", Rat(9, 2), 8, "AUD", <<>>),
            RecordingRating("rec2", Rat(4, 1), 3, "SBD", <<>>)>>
    /\ show_rating.best_recording_id = "rec2"

RECURSIVE SumInt(_, _)
SumInt(f, I) ==
    IF I = {} THEN 0
    ELSE LET i == CHOOSE j \in I : TRUE IN f[i] + SumInt(f, I \ {i})

TotalReviewCount(rs) ==
    SumInt([i \in 1..Len(rs) |-> rs[i].review_count], 1..Len(rs))

\* C8: confidence_score = min(totalReviewCount / 10, 1), within [0, 1],
\* non-decreasing in the total review count, and 1 exactly from 10 reviews on.
C8_Confidence ==
    Aggregated /\ recording_ratings # <<>> =>
        LET total == TotalReviewCount(recording_ratings)
            conf  == show_rating.confidence_score
        IN  /\ conf = (IF total >= 10 THEN One ELSE Rat(total, 10))
            /\ RatLe(Zero, conf) /\ RatLe(conf, One)
            /\ conf = One <=> total >= 10
            /\ IsShowRating(prev_show_rating) =>
                  /\ TotalReviewCount(prev_recording_ratings) <= total =>
                        RatLe(prev_show_rating.confidence_score, conf)
                  /\ total <= TotalReviewCount(prev_recording_ratings) =>
                        RatLe(conf, prev_show_rating.confidence_score)

\* 8 reviews (confidence 0.8) grow to 11 reviews (confidence 1)
C8_Witness ==
    /\ Aggregated
    /\ IsShowRating(prev_show_rating)
    /\ TotalReviewCount(prev_recording_ratings) = 8
    /\ prev_show_rating.confidence_score = Rat(8, 10)
    /\ TotalReviewCount(recording_ratings) = 11
    /\ show_rating.confidence_score = One

RECURSIVE SumRat(_, _)
SumRat(f, I) ==
    IF I = {} THEN Zero
    ELSE LET i == CHOOSE j \in I : TRUE IN RatAdd(f[i], SumRat(f, I \ {i}))

StatedShowWeight(r) == RatMul(RatInt(r.review_count), StatedWeight(r.source_type))

StatedShowAverage(rs) ==
    LET I == 1..Len(rs)
        W == SumRat([i \in I |-> StatedShowWeight(rs[i])], I)
        S == SumRat([i \in I |-> RatMul(rs[i].avg_rating, StatedShowWeight(rs[i]))], I)
    IN  IF W = Zero THEN Zero ELSE RatDiv(S, W)

\* the permutations of 1..n, for every length of input the model reaches
IndexPermutations ==
    [n \in 0..MaxRecordings |->
        {p \in [1..n -> 1..n] : \A i, j \in 1..n : p[i] = p[j] => i = j}]

Permuted(rs, p) == [i \in 1..Len(rs) |-> rs[p[i]]]

C9_WitnessZeroWeight ==
    /\ Aggregated
    /\ Len(recording_ratings) = 2
    /\ \A i \in 1..2 : recording_ratings[i].review_count = 0
    /\ show_rating.avg_rating = Zero

\* ------------------------------------------------------------------------
\* Claims about generate_ratings_data (checked under Spec)
\* ------------------------------------------------------------------------
\* C6: review_count, and the review_count and confidence of the report, are
\* the number n of reviews that passed the stars >= 1.0 filter, from which
\* the score was computed, and the stored reviews are that filtered set.
C6_ReviewCountIsFilteredCount ==
    \A g \in 1..Len(shows_data) :
        \A i \in 1..Len(shows_data[g].recordings) :
            LET r == shows_data[g].recordings[i]
                n == QualifyingCount(r.reviews)
                e == recording_ratings_data[r.identifier]
            IN  /\ r.review_count = n
                /\ \A k \in 1..Len(r.reviews) : k \in QualifyingIdx(r.reviews)
                /\ e.review_count = n
                /\ e.confidence = (IF n >= 5 THEN One ELSE Rat(n, 5))

\* C10: date and venue of every ShowRating, show_ratings entry and top_shows
\* entry are the normalized date and the venue of the show's grouping key,
\* and shows of different keys never report the same date and venue.
C10_DateVenueFromKey ==
    /\ pc = "running" /\ sidx > 1 /\ IsShowRating(show_rating) =>
          make_show_key(show_rating.date, show_rating.venue)
             = shows_data[sidx - 1].show_key
    /\ \A i \in 1..Len(show_ratings_data) :
          make_show_key(show_ratings_data[i].date, show_ratings_data[i].venue)
             = show_ratings_data[i].show_key
    /\ \A i \in 1..Len(top_shows) :
          make_show_key(top_shows[i].date, top_shows[i].venue)
             = top_shows[i].show_key
    /\ \A i, j \in 1..Len(show_ratings_data) :
          show_ratings_data[i].show_key # show_ratings_data[j].show_key =>
             <<show_ratings_data[i].date, show_ratings_data[i].venue>>
                # <<show_ratings_data[j].date, show_ratings_data[j].venue>>

\* ------------------------------------------------------------------------
\* Claims about normalize_date (checked under SpecDate)
\* ------------------------------------------------------------------------
\* the exact shape YYYY-MM-DD: four digits, two digits, two digits
ShapeYMD(s) ==
    /\ Len(s) = 10
    /\ s[5] = "-"
    /\ s[8] = "-"
    /\ \A i \in {1, 2, 3, 4, 6, 7, 9, 10} : IsDigit(s[i])

\* the shapes YYYY-M-D and MM/DD/YYYY, months and days of one or two digits
ShapeLoose(s, sep, year, month, day) ==
    LET parts == Split(s, sep)
    IN  /\ Len(parts) = 3
        /\ \A k \in 1..3 : AllDigits(parts[k])
        /\ Len(parts[year]) = 4
        /\ Len(parts[month]) \in {1, 2}
        /\ Len(parts[day]) \in {1, 2}

StatedDate(s, sep, year, month, day) ==
    LET parts == Split(s, sep)
    IN  parts[year] \o <<"-">> \o Zfill(parts[month], 2)
                    \o <<"-">> \o Zfill(parts[day], 2)

BeforeT(s) == IF s = NotRecognized THEN s ELSE Split(s, "T")[1]

\* C11: normalize_date returns either None or a string of the exact shape
\* YYYY-MM-DD; an input already of that shape is returned unchanged, an
\* input YYYY-M-D or MM/DD/YYYY is zero-padded and reordered, what follows a
\* 'T' is dropped first, and normalizing the result again changes nothing.
C11_NormalizedShape ==
    pcDate \in {"normalized", "again"} =>
        /\ normalized = NotRecognized \/ ShapeYMD(normalized)
        /\ ShapeYMD(date_arg) => normalized = date_arg
        /\ ~Falsy(date_arg) /\ ShapeLoose(BeforeT(date_arg), "-", 1, 2, 3) =>
              normalized = StatedDate(BeforeT(date_arg), "-", 1, 2, 3)
        /\ ~Falsy(date_arg) /\ ShapeLoose(BeforeT(date_arg), "/", 3, 1, 2) =>
              normalized = StatedDate(BeforeT(date_arg), "/", 3, 1, 2)
        /\ pcDate = "again" => renormalized = normalized

\* ------------------------------------------------------------------------
\* Claims about extract_source_type (checked under SpecSource)
\* ------------------------------------------------------------------------
\* the categories in the stated order, each with its keywords
CategoryOrder == <<"SBD", "MATRIX", "AUD", "FM", "REMASTER">>

CategoryKeywords ==
    <<{<<"S", "B", "D">>,
       <<"S", "O", "U", "N", "D", "B", "O", "A", "R", "D">>},
      {<<"M", "A", "T", "R", "I", "X">>},
      {<<"A", "U", "D">>, <<"A", "U", "D", "I", "E", "N", "C", "E">>},
      {<<"F", "M">>, <<"B", "R", "O", "A", "D", "C", "A", "S", "T">>},
      {<<"R", "E", "M", "A", "S", "T", "E", "R">>}>>

\* a keyword of category k occurs in the upper-cased "title description"
KeywordOccurs(k) ==
    \E kw \in CategoryKeywords[k] :
        Contains(Upper(title_arg \o <<" ">> \o description_arg), kw)

\* C12: extract_source_type is total and first-match-wins in the order
\* SBD, MATRIX, AUD, FM, REMASTER, UNKNOWN: it returns a category exactly
\* when one of its keywords occurs in the upper-cased title and description
\* and no keyword of an earlier category does, and UNKNOWN exactly when no
\* keyword occurs.
C12_FirstMatchWins ==
    pcSource = "classified" =>
        /\ classified \in SourceTypes
        /\ \A k \in 1..Len(CategoryOrder) :
              classified = CategoryOrder[k] <=>
                 /\ KeywordOccurs(k)
                 /\ \A j \in 1..(k - 1) : ~KeywordOccurs(j)
        /\ classified = "UNKNOWN" <=>
              \A k \in 1..Len(CategoryOrder) : ~KeywordOccurs(k)

\* "GD SBD FM Broadcast" is SBD although the keywords of FM occur in it
C12_Witness ==
    /\ pcSource = "classified"
    /\ title_arg = Str_example
    /\ KeywordOccurs(1)
    /\ KeywordOccurs(4)
    /\ classified = "SBD"

\* a text without any keyword is UNKNOWN
C12_WitnessUnknown ==
    /\ pcSource = "classified"
    /\ \A k \in 1..Len(CategoryOrder) : ~KeywordOccurs(k)
    /\ classified = "UNKNOWN"

\* ------------------------------------------------------------------------
\* Claims about fetch_recording_reviews (checked under SpecFetch)
\* ------------------------------------------------------------------------
\* the reviews of the response, none when the fetch failed
ResponseReviews == IF response_stars = FetchFailed THEN <<>> ELSE response_stars

InRange(stars) == RatGe(stars, One) /\ RatLe(stars, Rat(5, 1))

\* the positions of the response whose stars are in I, and the j-th of them
PositionsWhere(Test(_)) ==
    {i \in 1..Len(ResponseReviews) : Test(ResponseReviews[i])}

NthOf(I, j) == CHOOSE i \in I : Cardinality({k \in I : k <= i}) = j

\* C16 as stated: every ReviewData constructed has stars within [1, 5], the
\* ReviewData being those of the records of the response with stars in
\* [1, 5]; a record with stars absent, zero, below 1 or above 5 never
\* becomes a ReviewData.
C16_StarsWithinOneToFive ==
    pcFetch = "fetched" =>
        /\ \A j \in 1..Len(fetched) : InRange(fetched[j].stars)
        /\ Len(fetched) = Cardinality(PositionsWhere(InRange))

Positive(stars) == stars[1] > 0

\* C16 amended: the ReviewData constructed are, in order, those of the
\* records of the response whose stars are above 0; a record with stars
\* absent, zero or negative never becomes a ReviewData, one with stars
\* between 0 and 1 or above 5 does.
C16_StarsAboveZero ==
    pcFetch = "fetched" =>
        /\ Len(fetched) = Cardinality(PositionsWhere(Positive))
        /\ \A j \in 1..Len(fetched) :
              fetched[j].stars =
                 ResponseReviews[NthOf(PositionsWhere(Positive), j)]

\* a response with a zero, a half star and six stars: two ReviewData
C16_Witness ==
    /\ pcFetch = "fetched"
    /\ response_stars = <<Rat(0, 1), Rat(1, 2), Rat(6, 1)>>
    /\ fetched = <<ReviewData(Rat(1, 2)), ReviewData(Rat(6, 1))>>

\* ------------------------------------------------------------------------
\* Claims about the grouping by show_key (checked under SpecGroup)
\* ------------------------------------------------------------------------
\* the recordings that were grouped, and the group a recording is in
GroupedIds ==
    {i \in 1..GroupSize :
        \E g \in 1..Len(grouped) :
            \E k \in 1..Len(grouped[g].recordings) :
                grouped[g].recordings[k] = Identifiers[i]}

GroupOf(i) ==
    CHOOSE g \in 1..Len(grouped) :
        \E k \in 1..Len(grouped[g].recordings) :
            grouped[g].recordings[k] = Identifiers[i]

NormalizedDateOf(i) == normalize_date(group_inputs[i].date)

VenueOf(i) == group_inputs[i].venue

Underscored(venue) ==
    [k \in 1..Len(venue) |-> IF venue[k] = " " THEN "_" ELSE venue[k]]

StatedKey(i) == NormalizedDateOf(i) \o <<"_">> \o Underscored(VenueOf(i))

\* C14 as stated: two recordings land in the same show group if and only
\* if they have the same normalized date and the same venue; the key of the
\* group is normalizedDate + "_" + venue with spaces replaced by
\* underscores.
C14_SameGroupIffSameDateAndVenue ==
    gidx > GroupSize =>
        /\ \A i \in GroupedIds : grouped[GroupOf(i)].show_key = StatedKey(i)
        /\ \A i, j \in GroupedIds :
              GroupOf(i) = GroupOf(j) <=>
                 /\ NormalizedDateOf(i) = NormalizedDateOf(j)
                 /\ VenueOf(i) = VenueOf(j)

\* C14 amended: two recordings land in the same show group if and only if
\* they have the same normalized date and their venues are equal once the
\* spaces are replaced by underscores; the key of the group is
\* normalizedDate + "_" + venue with spaces replaced by underscores.
C14_SameGroupIffSameKey ==
    gidx > GroupSize =>
        /\ \A i \in GroupedIds : grouped[GroupOf(i)].show_key = StatedKey(i)
        /\ \A i, j \in GroupedIds :
              GroupOf(i) = GroupOf(j) <=>
                 /\ NormalizedDateOf(i) = NormalizedDateOf(j)
                 /\ Underscored(VenueOf(i)) = Underscored(VenueOf(j))

\* the venues "A B" and "A_B" of one date, in one group
C14_Witness ==
    /\ gidx > GroupSize
    /\ GroupedIds = 1..GroupSize
    /\ NormalizedDateOf(1) = NormalizedDateOf(2)
    /\ VenueOf(1) = <<"A", " ", "B">>
    /\ VenueOf(2) = <<"A", "_", "B">>
    /\ GroupOf(1) = GroupOf(2)
    /\ Len(grouped[GroupOf(1)].recordings) = 2

\* ------------------------------------------------------------------------
\* Claims about generate_ratings_data (checked under Spec)
\* ------------------------------------------------------------------------
\* C15: a record that is skipped (its date is not recognized, its metadata
\* fetch fails, its review list is empty or its processing raises) leaves
\* the recording-level map and the show groups unchanged, and the loop goes
\* on with the next identifier. An iteration that does not count the record
\* as processed is one that skipped it.
C15_SkippedLeavesUnchanged ==
    [][(idx' = idx + 1 /\ processed_count' = processed_count) =>
          /\ recording_ratings_data' = recording_ratings_data
          /\ shows_data' = shows_data
          /\ pc' = "running"]_vars

\* the places <<group, position>> of a recording in the show groups
PlacesOf(identifier) ==
    UNION {{<<g, k>> : k \in {n \in 1..Len(shows_data[g].recordings) :
                shows_data[g].recordings[n].identifier = identifier}} :
           g \in 1..Len(shows_data)}

\* C17 as stated: a recording whose rating is below the inclusion threshold
\* is left out of recording_ratings but stays in the set aggregated into
\* its show.
C17_BelowThresholdStillAggregated ==
    \A identifier \in below_threshold :
        /\ identifier \notin DOMAIN recording_ratings_data
        /\ PlacesOf(identifier) # {}

\* C17 amended: a recording whose rating is below the inclusion threshold
\* is left out of recording_ratings and of the show groups alike, so that
\* every recording aggregated into a show has a rating of at least 2.5.
C17_BelowThresholdNeverAggregated ==
    /\ \A identifier \in below_threshold :
          /\ identifier \notin DOMAIN recording_ratings_data
          /\ PlacesOf(identifier) = {}
    /\ \A g \in 1..Len(shows_data) :
          \A k \in 1..Len(shows_data[g].recordings) :
              RatGe(shows_data[g].recordings[k].avg_rating, Rat(5, 2))

\* a run that met a recording below the threshold and reported a show
C17_Witness ==
    /\ pc = "done"
    /\ below_threshold # {}
    /\ Len(ratings_data.show_ratings) >= 1
    /\ Cardinality(below_threshold) + Cardinality(DOMAIN recording_ratings_data)
          = Len(recording_ids)

\* C18: in the dataset, total_recordings is the number of entries of
\* recording_ratings, total_shows the number of entries of show_ratings,
\* the well-reviewed counter the number of entries of recording_ratings
\* with review_count >= 3, and every entry of recording_ratings and of
\* show_ratings has a rating of at least 2.5.
C18_MetadataCounts ==
    pc = "done" =>
        LET rr == ratings_data.recording_ratings
            sr == ratings_data.show_ratings
            md == ratings_data.metadata
        IN  /\ md.total_recordings = Cardinality(DOMAIN rr)
            /\ md.total_shows = Len(sr)
            /\ md.well_reviewed =
                  Cardinality({id \in DOMAIN rr : rr[id].review_count >= 3})
            /\ \A id \in DOMAIN rr : RatGe(rr[id].rating, Rat(5, 2))
            /\ \A i \in 1..Len(sr) : RatGe(sr[i].rating, Rat(5, 2))

\* a dataset with entries of review_count 2 and 3 and a show
C18_Witness ==
    /\ pc = "done"
    /\ \E a, b \in DOMAIN ratings_data.recording_ratings :
          /\ ratings_data.recording_ratings[a].review_count = 2
          /\ ratings_data.recording_ratings[b].review_count = 3
    /\ ratings_data.metadata.total_recordings = 3
    /\ ratings_data.metadata.well_reviewed = 2
    /\ ratings_data.metadata.total_shows >= 1

RECURSIVE RecordingCountSum(_)
RecordingCountSum(sr) ==
    IF sr = <<>> THEN 0
    ELSE Head(sr).recording_count + RecordingCountSum(Tail(sr))

\* C20: in the dataset, each reported recording is in exactly one show
\* group and occurs in it once, so that the recording_count of the entries
\* of show_ratings add up to total_recordings and to the processed count,
\* and the best_recording of every entry of show_ratings is a key of
\* recording_ratings.
C20_ReportedRecordingsPartitioned ==
    pc = "done" =>
        LET rr == ratings_data.recording_ratings
            sr == ratings_data.show_ratings
            md == ratings_data.metadata
        IN  /\ \A id \in DOMAIN rr : Cardinality(PlacesOf(id)) = 1
            /\ RecordingCountSum(sr) = md.total_recordings
            /\ md.total_recordings = md.processed
            /\ \A i \in 1..Len(sr) : sr[i].best_recording \in DOMAIN rr

\* ------------------------------------------------------------------------
\* Claims about top_shows (checked under SpecTop)
\* ------------------------------------------------------------------------
\* the entries of show_ratings with a confidence of at least 0.7
QualifyingShows ==
    {i \in 1..Len(ratings_data.show_ratings) :
        RatGe(ratings_data.show_ratings[i].confidence, Rat(7, 10))}

\* the entry of show_ratings a top show stands for
ShowIndexOf(t) ==
    CHOOSE i \in 1..Len(ratings_data.show_ratings) :
        ratings_data.show_ratings[i].show_key = t.show_key

\* C13: top_shows holds only shows of show_ratings with a confidence of at
\* least 0.7, each once, sorted by rating non-increasing with shows of
\* equal rating in grouping order; its length is min(100, number of such
\* shows) and it holds the highest-rated of them, so 150 qualifying shows
\* yield exactly 100 entries.
C13_TopShows ==
    pc = "done" =>
        LET ts == ratings_data.top_shows
            sr == ratings_data.show_ratings
            shown == {ShowIndexOf(ts[j]) : j \in 1..Len(ts)}
        IN  /\ \A j \in 1..Len(ts) :
                  /\ \E i \in QualifyingShows : sr[i].show_key = ts[j].show_key
                  /\ ts[j].rating = sr[ShowIndexOf(ts[j])].rating
            /\ Cardinality(shown) = Len(ts)
            /\ \A j, k \in 1..Len(ts) :
                  j < k =>
                     \/ RatGt(ts[j].rating, ts[k].rating)
                     \/ /\ ts[j].rating = ts[k].rating
                        /\ ShowIndexOf(ts[j]) < ShowIndexOf(ts[k])
            /\ Len(ts) = IF Cardinality(QualifyingShows) < 100
                         THEN Cardinality(QualifyingShows) ELSE 100
            /\ \A i \in QualifyingShows \ shown :
                  \A j \in 1..Len(ts) :
                     \/ RatGt(ts[j].rating, sr[i].rating)
                     \/ /\ ts[j].rating = sr[i].rating
                        /\ ShowIndexOf(ts[j]) < i

\* 150 shows, all of a confidence of at least 0.7, and 100 top shows
C13_Witness ==
    /\ pc = "done"
    /\ Len(ratings_data.show_ratings) = 150
    /\ Cardinality(QualifyingShows) = 150
    /\ Len(ratings_data.top_shows) = 100

\* a catalogue with shows below the confidence of 0.7
C13_WitnessMixed ==
    /\ pc = "done"
    /\ Len(ratings_data.show_ratings) > TopShowsLimit
    /\ Cardinality(QualifyingShows) < Len(ratings_data.show_ratings)
    /\ Len(ratings_data.top_shows) = 100

\* ------------------------------------------------------------------------
\* Claims about the show-level threshold (checked under SpecFloat)
\* ------------------------------------------------------------------------
\* C19: every show group produces a show_ratings entry: each grouped
\* recording has avg_rating >= 2.5 and review_count >= 1, the show's weighted
\* average lies between the least and the greatest avg_rating of its
\* recordings and is therefore >= 2.5, and the show is reported
C19_EveryGroupProducesShow ==
    (pcFloat = "rated" /\ float_group # <<>>) =>
        /\ \A i \in 1..Len(float_group) :
              /\ FGe(float_group[i].avg_rating, min_rating_for_inclusion_float)
              /\ float_group[i].review_count >= 1
        /\ FGe(float_show.avg_rating, min_rating_for_inclusion_float)
        /\ float_show.reported

\* the step of C19's argument on its own: the show's weighted average lies
\* between the least and the greatest avg_rating of its recordings
C19_AverageWithinRecordings ==
    (pcFloat = "rated" /\ float_group # <<>>) =>
        /\ \E i \in 1..Len(float_group) :
              FGe(float_show.avg_rating, float_group[i].avg_rating)
        /\ \E i \in 1..Len(float_group) :
              FGe(float_group[i].avg_rating, float_show.avg_rating)

\* what does hold of a group: its recordings are at or above the threshold
\* and have at least one review
C19_GroupedRecordingsQualify ==
    \A i \in 1..Len(float_group) :
        /\ FGe(float_group[i].avg_rating, min_rating_for_inclusion_float)
        /\ float_group[i].review_count >= 1

====
